---- MODULE Spec2Model ----
(***************************************************************************)
(* wss::ChatServer (src/src/server/chat/ChatServer.cpp): the connection    *)
(* open handler, the inbound frame handler, routing (send / sendTo), the   *)
(* undelivered queue and its redelivery, the send-completion callbacks and *)
(* the close handler, as a state machine.                                  *)
(*                                                                         *)
(* Strings are sequences of one-character strings.  MessagePayload,        *)
(* ConnectionStorage, Statistics and the authenticator are declared        *)
(* outside ChatServer.cpp; they are modelled from their documented         *)
(* contract.                                                               *)
(***************************************************************************)
EXTENDS Integers, Sequences, FiniteSets, TLC

\* ---------------------------------------------------------------- bounds
\* connection objects the transport ever creates
MaxConn == 2
\* fragments (BEGIN, CONTINUE) the transport ever delivers to onMessage
MaxFragments == 2
\* complete messages (TEXT, BINARY, END) the transport ever delivers
MaxMessages == 2
\* cap of the per-user send counter (only the redelivery loop can reach it)
MaxSent == 4
\* rounds of the drain loop one open handler ever runs
MaxDrain == 2
\* workers of the transport's pool (config.threadPoolSize, scaled down)
MaxThreads == 2

\* m_maxMessageSize, as set through setMessageSizeLimit (scaled down)
m_maxMessageSize == 4

Users == {0, 1, 2}
ConnIds == 1..MaxConn

\* ------------------------------------------------------- character level
Digits == {"0", "1", "2", "3", "4", "5", "6", "7", "8", "9"}
Letters == {"m", "t", "T", "s", "x"}

DigitVal(ch) ==
    CASE ch = "0" -> 0 [] ch = "1" -> 1 [] ch = "2" -> 2 [] ch = "3" -> 3
      [] ch = "4" -> 4 [] ch = "5" -> 5 [] ch = "6" -> 6 [] ch = "7" -> 7
      [] ch = "8" -> 8 [] ch = "9" -> 9

DigitChar(n) ==
    CASE n = 0 -> "0" [] n = 1 -> "1" [] n = 2 -> "2" [] n = 3 -> "3"
      [] n = 4 -> "4" [] n = 5 -> "5" [] n = 6 -> "6" [] n = 7 -> "7"
      [] n = 8 -> "8" [] n = 9 -> "9"

\* tolower on the letters of the alphabet
ToLowerChar(ch) == IF ch = "T" THEN "t" ELSE ch

\* toolboxpp::strings::equalsIgnoreCase
equalsIgnoreCase(a, b) ==
    /\ Len(a) = Len(b)
    /\ \A i \in 1..Len(a) : ToLowerChar(a[i]) = ToLowerChar(b[i])

\* the ascending sequence of a finite set of numbers
RECURSIVE SortedSeq(_)
SortedSeq(S) ==
    IF S = {} THEN <<>>
    ELSE LET lo == CHOOSE x \in S : \A y \in S : x <= y
         IN <<lo>> \o SortedSeq(S \ {lo})

\* number of leading characters of s that lie in the set cls
RECURSIVE PrefixLen(_, _)
PrefixLen(s, cls) ==
    IF s = <<>> \/ Head(s) \notin cls THEN 0 ELSE 1 + PrefixLen(Tail(s), cls)

\* ------------------------------------------------------------ std::stoul
\* decimal digits of ULONG_MAX = 2^64 - 1 (user_id_t is unsigned long)
ULONG_MAX_DIGITS ==
    <<"1","8","4","4","6","7","4","4","0","7","3","7","0","9","5","5","1","6","1","5">>

RECURSIVE StripZeros(_)
StripZeros(d) ==
    IF d # <<>> /\ Head(d) = "0" THEN StripZeros(Tail(d)) ELSE d

\* lexicographic a > b for digit strings of equal length
RECURSIVE DigitsGreater(_, _)
DigitsGreater(a, b) ==
    IF a = <<>> THEN FALSE
    ELSE IF DigitVal(Head(a)) # DigitVal(Head(b))
         THEN DigitVal(Head(a)) > DigitVal(Head(b))
         ELSE DigitsGreater(Tail(a), Tail(b))

ExceedsUlong(d) ==
    LET z == StripZeros(d)
    IN \/ Len(z) > Len(ULONG_MAX_DIGITS)
       \/ Len(z) = Len(ULONG_MAX_DIGITS) /\ DigitsGreater(z, ULONG_MAX_DIGITS)

\* value of a digit string (used for strings of at most nine digits)
RECURSIVE DecimalValue(_)
DecimalValue(d) ==
    IF d = <<>> THEN 0
    ELSE 10 * DecimalValue(SubSeq(d, 1, Len(d) - 1)) + DigitVal(d[Len(d)])

\* std::stoul(str): converts the longest prefix of decimal digits and
\* ignores what follows it; no digit at the front is std::invalid_argument,
\* a value above ULONG_MAX is std::out_of_range.  (The inputs of the model
\* carry no white space and no sign.)
stoul(str) ==
    LET n == PrefixLen(str, Digits)
        d == SubSeq(str, 1, n)
    IN IF n = 0 THEN [threw |-> "invalid_argument", value |-> 0]
       ELSE IF ExceedsUlong(d) THEN [threw |-> "out_of_range", value |-> 0]
       ELSE [threw |-> "", value |-> DecimalValue(StripZeros(d))]

\* -------------------------------------------------------- MessagePayload
\* Wire form of a payload: the type (letters), one digit for the sender,
\* one digit for each recipient.
NoPayload == [valid |-> FALSE, type |-> <<>>, sender |-> 0, recipients |-> {}]

\* MessagePayload(const std::string &)
MessagePayload(wire) ==
    LET n == PrefixLen(wire, Letters)
        rest == SubSeq(wire, n + 1, Len(wire))
    IN IF n >= 1 /\ Len(rest) >= 1 /\ PrefixLen(rest, Digits) = Len(rest)
       THEN [valid |-> TRUE,
             type |-> SubSeq(wire, 1, n),
             sender |-> DigitVal(rest[1]),
             recipients |-> {DigitVal(rest[i]) : i \in 2..Len(rest)}]
       ELSE NoPayload

\* MessagePayload::toJson
toJson(p) ==
    LET r == SortedSeq(p.recipients)
    IN p.type \o <<DigitChar(p.sender)>> \o [i \in 1..Len(r) |-> DigitChar(r[i])]

\* MessagePayload::setRecipient: the copy addressed to uid alone
setRecipient(p, uid) == [p EXCEPT !.recipients = {uid}]

TYPE_SENT_STATUS == <<"s">>

\* MessagePayload::isTypeOfSentStatus
isTypeOfSentStatus(p) == p.type = TYPE_SENT_STATUS

\* MessagePayload::createSendStatus: the acknowledgement of p, addressed to
\* p's sender
createSendStatus(p) ==
    [valid |-> TRUE, type |-> TYPE_SENT_STATUS, sender |-> 0,
     recipients |-> {p.sender}]

\* ----------------------------------------------------------------- state
VARIABLES
    settings,     \* wss::Settings::get() and the setters of ChatServer
    botEncoding,  \* how MessagePayload::isForBot reads the recipients
    conns,        \* the transport's connections: state, getId(), close sent
    out,          \* per connection, the first messages handed to
                  \* connection->send, as many as openQueue holds
    storage,      \* m_connectionStorage: user id -> connection ids
    frameBuffer,  \* m_frameBuffer: user id -> accumulated bytes
    undelivered,  \* m_undeliveredMessagesMap: user id -> FIFO of payloads
    stats,        \* m_statistics: user id -> counters
    pending,      \* per connection, the asynchronous sends whose completion
                  \* callback has not run, in the order they were issued
    openQueue,    \* per connection, the undelivered queue found at registration
    ownFrames,    \* per connection, the fragments it sent since its last BEGIN
    nFrames,      \* inbound frames so far: [fragments, messages]
    throwing,     \* the listener of m_messageListeners that raises (0: none)
    drained,      \* per connection, the rounds its drain loop has run and the
                  \* length of the queue when the first round began
    watchdog,     \* m_watchdogThread: position, interrupt flag, pings in flight;
                  \* and the awaiting-pong marks of m_connectionStorage
    workers,      \* workers inside the undelivered-queue functions, and the
                  \* holder of m_undeliveredMutex
    ev            \* what the last handler did

vars == <<settings, botEncoding, conns, out, storage, frameBuffer, undelivered,
          stats, pending, openQueue, ownFrames, nFrames, throwing, drained,
          watchdog, workers, ev>>

NoBuffer == <<"-">>
NoFrames == <<"-">>

NoStat == [exists |-> FALSE, connections |-> 0, disconnections |-> 0,
           sent |-> 0, received |-> 0, bytes |-> 0]

NoEvent ==
    [kind |-> "Init", c |-> 0,
     auth |-> FALSE, params |-> {},      \* onConnected: the request
     closeCode |-> "", threw |-> "",     \* sendClose issued, exception escaped
     opcode |-> "",                      \* onMessage: the frame's opcode
     own |-> NoFrames,                   \* END: this connection's own fragments
     complete |-> <<>>,                  \* the bytes of the complete message
     parsed |-> FALSE, payload |-> NoPayload,
     backCalls |-> <<>>,                 \* sendTo calls of the send-back step
     routed |-> 0,                       \* calls of send(payload)
     calls |-> <<>>,                     \* sendTo calls made by send(payload)
     sends |-> <<>>,                     \* connection->send calls made by it
     listened |-> <<>>,                  \* listener invocations made by it
     enq |-> <<>>,                       \* queue pushes made by it
     done |-> NoPayload,                 \* SendCompleted: the payload sent
     recipient |-> 0,                    \* SendCompleted: the user sent to
     inactive |-> {},                    \* watchdog round: users past the lifetime
     closed |-> <<>>,                    \* watchdog round: sendClose calls
     pinged |-> <<>>,                    \* watchdog round: PING sends
     pre |-> [undelivered |-> [u \in Users |-> <<>>],
              stats |-> [u \in Users |-> NoStat]]]

\* number of callbacks in m_messageListeners
NumListeners == 2

\* MessagePayload::isForBot: the recipients name the reserved user 0; the
\* declaration leaves open whether 0 must be the only recipient
isForBot(p) ==
    IF botEncoding = "only0" THEN p.recipients = {0} ELSE 0 \in p.recipients

\* ---------------------------------------------------- routing operators
\* A world w is the part of the state the routing path reads and writes:
\* [storage, undelivered, stats, pending, out] and the log of the calls made
\* [calls, sends, listened, enq].

World ==
    [storage |-> storage, undelivered |-> undelivered, stats |-> stats,
     pending |-> pending, out |-> out,
     calls |-> <<>>, sends |-> <<>>, listened |-> <<>>, enq |-> <<>>,
     threw |-> ""]

ClearLog(w) ==
    [w EXCEPT !.calls = <<>>, !.sends = <<>>, !.listened = <<>>, !.enq = <<>>]

\* ChatServer::callOnMessageListeners: the listeners in registration order;
\* what one of them raises leaves the loop and the function
callOnMessageListeners(w, p) ==
    IF throwing = 0
    THEN [w EXCEPT !.listened =
            @ \o [i \in 1..NumListeners |-> [listener |-> i, payload |-> p]]]
    ELSE [w EXCEPT !.listened =
            @ \o [i \in 1..throwing |-> [listener |-> i, payload |-> p]],
                   !.threw = "listener"]

\* ChatServer::enqueueUndeliveredMessage
RECURSIVE PushEach(_, _, _)
PushEach(w, rs, p) ==
    IF rs = <<>> THEN w
    ELSE PushEach([w EXCEPT !.undelivered[Head(rs)] = Append(@, p),
                            !.enq = Append(@, [uid |-> Head(rs), payload |-> p])],
                  Tail(rs), p)

enqueueUndeliveredMessage(w, p) == PushEach(w, SortedSeq(p.recipients), p)

\* a handler that queues the payload as it came, for all its recipients
handleUndeliverableAsIs(w, uid, p) ==
    IF ~settings.enableUndeliveredQueue THEN w
    ELSE enqueueUndeliveredMessage(w, p)

\* ChatServer::handleUndeliverable
handleUndeliverable(w, uid, p) ==
    IF ~settings.enableUndeliveredQueue THEN w
    ELSE enqueueUndeliveredMessage(w, setRecipient(p, uid))

\* Statistics::addSendMessage().addBytesTransferred(n), through getStat
addSendMessage(w, uid, n) ==
    [w EXCEPT !.stats[uid] =
        [@ EXCEPT !.exists = TRUE, !.sent = @ + 1, !.bytes = @ + n]]

\* Statistics::addReceivedMessage().addBytesTransferred(n), through getStat
RECURSIVE addReceivedEach(_, _, _)
addReceivedEach(w, rs, n) ==
    IF rs = <<>> THEN w
    ELSE addReceivedEach(
            [w EXCEPT !.stats[Head(rs)] =
                [@ EXCEPT !.exists = TRUE, !.received = @ + 1, !.bytes = @ + n]],
            Tail(rs), n)

\* a loop that stops after the first connection
IssueFirstOnly(w, cs, recipient, p) ==
    IF cs = <<>> THEN w
    ELSE LET snd == [cid |-> Head(cs), recipient |-> recipient, payload |-> p]
         IN [w EXCEPT !.pending[Head(cs)] = Append(@, snd),
                      !.sends = Append(@, snd)]

\* connection->send(stream, callback, opcode) on every connection of recipient
RECURSIVE IssueEach(_, _, _, _)
IssueEach(w, cs, recipient, p) ==
    IF cs = <<>> THEN w
    ELSE LET cid == Head(cs)
             wire == toJson(p)
             snd == [cid |-> cid, recipient |-> recipient, payload |-> p]
         IN IssueEach([w EXCEPT !.out[cid] =
                                    IF Len(@) < Len(openQueue[cid])
                                    THEN Append(@, wire) ELSE @,
                                !.pending[cid] = Append(@, snd),
                                !.sends = Append(@, snd)],
                      Tail(cs), recipient, p)

RECURSIVE send(_, _)
RECURSIVE sendTo(_, _, _)
RECURSIVE onMessageSent(_, _, _, _)

\* ChatServer::onMessageSent, the accounting of lines 260-268
accountMessage(w, p, bytesTransferred, hasSent) ==
    LET w1 == addSendMessage(w, p.sender, bytesTransferred)
    IN IF hasSent
       THEN addReceivedEach(w1, SortedSeq(p.recipients), bytesTransferred)
       ELSE w1

\* a completion handler without the check of the reserved type
onMessageSentUnguarded(w, p, bytesTransferred, hasSent) ==
    LET w2 == accountMessage(w, p, bytesTransferred, hasSent)
    IN IF settings.enableDeliveryStatus /\ hasSent
       THEN send(w2, createSendStatus(p))
       ELSE w2

\* ChatServer::onMessageSent
onMessageSent(w, p, bytesTransferred, hasSent) ==
    IF isTypeOfSentStatus(p) THEN w
    ELSE LET w2 == accountMessage(w, p, bytesTransferred, hasSent)
         IN IF settings.enableDeliveryStatus /\ hasSent
            THEN send(w2, createSendStatus(p))
            ELSE w2

\* ChatServer::sendTo
sendTo(w, recipient, p) ==
    LET wc == [w EXCEPT !.calls = Append(@, recipient)]
    IN IF wc.storage[recipient] = {}
       THEN onMessageSent(handleUndeliverable(wc, recipient, p),
                          setRecipient(p, recipient), Len(toJson(p)), FALSE)
       ELSE IssueEach(wc, SortedSeq(wc.storage[recipient]), recipient, p)

RECURSIVE sendToEach(_, _, _)
sendToEach(w, rs, p) ==
    IF rs = <<>> THEN w
    ELSE IF Head(rs) = 0 THEN sendToEach(w, Tail(rs), p)
    ELSE sendToEach(sendTo(w, Head(rs), p), Tail(rs), p)

\* a fan-out that knows nothing of the reserved user 0
RECURSIVE sendToAll(_, _, _)
sendToAll(w, rs, p) ==
    IF rs = <<>> THEN w ELSE sendToAll(sendTo(w, Head(rs), p), Tail(rs), p)

sendWithoutBotRule(w, p) ==
    sendToAll(callOnMessageListeners(w, p), SortedSeq(p.recipients), p)

\* ChatServer::send
send(w, p) ==
    LET w1 == callOnMessageListeners(w, p)
    IN IF w1.threw # "" THEN w1
       ELSE IF isForBot(p) THEN w1
       ELSE sendToEach(w1, SortedSeq(p.recipients), p)

\* the snapshot an event keeps of the queues and counters send() started from
Pre(w) == [undelivered |-> w.undelivered, stats |-> w.stats]

\* ----------------------------------------------------------- the inputs
\* query strings of the upgrade request, as the parsed parameter list
BigId == [i \in 1..20 |-> "9"]

Queries ==
    { {},
      {<<"token", <<"x">>>>},
      {<<"id", <<>>>>},
      {<<"id", <<"0">>>>},
      {<<"id", <<"1">>>>},
      {<<"id", <<"2">>>>},
      {<<"id", <<"x">>>>},
      {<<"id", <<"2", "x">>>>},
      {<<"id", BigId>>} }

\* a message one byte longer than the limit.  The constructor hands the
\* same limit to the transport (config.maxMessageSize); what the transport
\* does with a longer frame is not decided in ChatServer.cpp, and the model
\* lets the frame through to onMessage.
Oversize == <<"m", "1">> \o [i \in 1..(m_maxMessageSize - 1) |-> "2"]

Frames ==
    { <<"TEXT", <<"m", "1", "2">>>>,
      <<"TEXT", <<"T", "1", "2">>>>,
      <<"TEXT", <<"m", "1", "0", "2">>>>,
      <<"TEXT", <<"x">>>>,
      <<"TEXT", Oversize>>,
      <<"BINARY", <<"m", "1", "0">>>>,
      <<"BEGIN_TEXT", <<"m">>>>,
      <<"BEGIN_BINARY", <<"T">>>>,
      <<"CONTINUE", <<"1">>>>,
      <<"END", <<"2">>>>,
      <<"END", <<"1", "2">>>>,
      <<"END", Tail(Oversize)>> }

SettingsSet ==
    [enableSendBack : BOOLEAN,
     ignoreTypesSendBack : {{<<"t">>}},
     enableUndeliveredQueue : BOOLEAN,
     enableDeliveryStatus : BOOLEAN]

\* ------------------------------------------------ threads and mutexes
\* the workers of the pool, and the watchdog thread of runService
PoolThreads == 1..MaxThreads
WatchdogThreadId == 0
Threads == PoolThreads \cup {WatchdogThreadId}
NoThread == MaxThreads + 1

\* m_connectionMutex, m_undeliveredMutex, m_frameBufferMutex, the mutex
\* inside ConnectionStorage, and the static mutex of getThreadName
Mutexes == {"m_connectionMutex", "m_undeliveredMutex", "m_frameBufferMutex",
            "ConnectionStorage", "my_mutex"}

\* a world where no mutex is re-entrant
is_plain_mutex(m) == FALSE

\* std::recursive_mutex m_connectionMutex; the others are std::mutex
is_recursive_mutex(m) == m = "m_connectionMutex"

\* ------------------------------------------------------------------ Init
\* the server after construction, configured by one of the settings S and
\* one of the payload encodings B
WatchdogOff ==
    [pc |-> "off", interrupted |-> FALSE, pings |-> {}, pongWait |-> {},
     owed |-> {}, ponged |-> {}]
\* no worker is inside redeliverMessagesTo or enqueueUndeliveredMessage, and
\* m_undeliveredMutex is free
NoWorkers ==
    [mutex |-> <<>>,
     drain |-> [c \in ConnIds |-> "idle"],       \* position of c's open handler
     local |-> [c \in ConnIds |-> NoPayload],    \* its `payload` variable
     enq |-> [pc |-> "idle", uid |-> 0, payload |-> NoPayload],
     \* every mutex of the server: the thread that owns it (NoThread: free)
     \* and how many times that thread has locked it
     owner |-> [m \in Mutexes |-> NoThread],
     depth |-> [m \in Mutexes |-> 0],
     \* per thread, the lock and unlock calls its handler has still to make
     todo |-> [t \in Threads |-> <<>>]]

InitEnv(S, B, T, W) ==
    /\ settings \in S
    /\ botEncoding \in B
    /\ throwing \in T
    /\ watchdog \in W
    /\ workers = NoWorkers
    /\ drained = [c \in ConnIds |-> [rounds |-> 0, queued |-> 0]]
    /\ conns = [c \in ConnIds |-> [st |-> "fresh", id |-> 0, closeCode |-> ""]]
    /\ out = [c \in ConnIds |-> <<>>]
    /\ storage = [u \in Users |-> {}]
    /\ frameBuffer = [u \in Users |-> NoBuffer]
    /\ undelivered = [u \in Users |-> <<>>]
    /\ stats = [u \in Users |-> NoStat]
    /\ pending = [c \in ConnIds |-> <<>>]
    /\ openQueue = [c \in ConnIds |-> <<>>]
    /\ ownFrames = [c \in ConnIds |-> NoFrames]
    /\ nFrames = [fragments |-> 0, messages |-> 0]
    /\ ev = NoEvent

\* the server with listeners that raise nothing and the watchdog disabled
InitWith(S, B) == InitEnv(S, B, {0}, {WatchdogOff})

\* --------------------------------------------------- ChatServer::onConnected
hasParam(params, name) == \E kv \in params : kv[1] = name
getParam(params, name) == (CHOOSE kv \in params : kv[1] = name)[2]

Refused(code) == [closeCode |-> code, threw |-> "", register |-> FALSE, id |-> 0]

\* an open handler that never asks the authenticator
outcomeWithoutAuth(params, authOk) ==
    IF params = {} THEN Refused("INVALID_QUERY_PARAMS")
    ELSE IF ~hasParam(params, "id") \/ getParam(params, "id") = <<>>
         THEN Refused("INVALID_QUERY_PARAMS")
    ELSE LET r == stoul(getParam(params, "id"))
         IN IF r.threw = "invalid_argument" THEN Refused("INVALID_QUERY_PARAMS")
            ELSE IF r.threw # ""
                 THEN [closeCode |-> "", threw |-> r.threw, register |-> FALSE, id |-> 0]
            ELSE [closeCode |-> "", threw |-> "", register |-> TRUE, id |-> r.value]

\* what the open handler decides before it touches the registry
onConnectedOutcome(params, authOk) ==
    IF ~authOk THEN Refused("UNAUTHORIZED")
    ELSE IF params = {} THEN Refused("INVALID_QUERY_PARAMS")
    ELSE IF ~hasParam(params, "id") \/ getParam(params, "id") = <<>>
         THEN Refused("INVALID_QUERY_PARAMS")
    ELSE LET r == stoul(getParam(params, "id"))
         IN IF r.threw = "invalid_argument" THEN Refused("INVALID_QUERY_PARAMS")
            ELSE IF r.threw # ""
                 THEN [closeCode |-> "", threw |-> r.threw, register |-> FALSE, id |-> 0]
            ELSE [closeCode |-> "", threw |-> "", register |-> TRUE, id |-> r.value]

\* The transport opens connection c; the handler runs up to the call of
\* redeliverMessagesTo.  An exception that leaves the handler leaves the
\* connection neither registered nor closed.
OnConnected(c, params, authOk) ==
    /\ conns[c].st = "fresh"
    /\ \A d \in ConnIds : d < c => conns[d].st # "fresh"
    /\ LET o == onConnectedOutcome(params, authOk)
       IN /\ conns' = [conns EXCEPT ![c] =
                [st |-> IF o.register THEN "opening"
                        ELSE IF o.threw # "" THEN "aborted" ELSE "closing",
                 id |-> o.id, closeCode |-> o.closeCode]]
          /\ storage' = IF o.register
                         THEN [storage EXCEPT ![o.id] = @ \cup {c}] ELSE storage
          /\ stats' = IF o.register
                       THEN [stats EXCEPT ![o.id] =
                                [@ EXCEPT !.exists = TRUE, !.connections = @ + 1]]
                       ELSE stats
          /\ openQueue' = IF o.register
                           THEN [openQueue EXCEPT ![c] = undelivered[o.id]]
                           ELSE openQueue
          /\ ev' = [NoEvent EXCEPT !.kind = "OnConnected", !.c = c,
                                   !.auth = authOk, !.params = params,
                                   !.closeCode = o.closeCode, !.threw = o.threw]
    /\ UNCHANGED <<settings, botEncoding, out, frameBuffer, undelivered,
                   pending, ownFrames, nFrames, throwing, drained, watchdog,
                   workers>>

\* -------------------------------------------- ChatServer::redeliverMessagesTo
\* the handler finds nothing (left) to redeliver and returns
RedeliverReturn(c) ==
    /\ conns[c].st = "opening"
    /\ ~settings.enableUndeliveredQueue \/ undelivered[conns[c].id] = <<>>
    /\ conns' = [conns EXCEPT ![c].st = "open"]
    /\ ev' = [NoEvent EXCEPT !.kind = "RedeliverReturn", !.c = c]
    /\ UNCHANGED <<settings, botEncoding, out, storage, frameBuffer, undelivered,
                   stats, pending, openQueue, ownFrames, nFrames, throwing,
                   drained, watchdog, workers>>

\* one round of the loop: front, pop, send
RedeliverStep(c) ==
    /\ conns[c].st = "opening"
    /\ settings.enableUndeliveredQueue
    /\ undelivered[conns[c].id] # <<>>
    /\ \A u \in Users : stats[u].sent < MaxSent
    /\ drained[c].rounds < MaxDrain
    /\ LET id == conns[c].id
           p == Head(undelivered[id])
           w0 == [World EXCEPT !.undelivered[id] = Tail(@)]
           w1 == send(w0, p)
       IN /\ undelivered' = w1.undelivered
          /\ stats' = w1.stats
          /\ pending' = w1.pending
          /\ out' = w1.out
          /\ drained' = [drained EXCEPT ![c] =
                [rounds |-> @.rounds + 1,
                 queued |-> IF @.rounds = 0 THEN Len(undelivered[id])
                            ELSE @.queued]]
          /\ conns' = IF w1.threw # "" THEN [conns EXCEPT ![c].st = "aborted"]
                       ELSE conns
          /\ ev' = [NoEvent EXCEPT !.kind = "Redeliver", !.c = c, !.payload = p,
                                   !.routed = 1, !.calls = w1.calls,
                                   !.sends = w1.sends,
                                   !.listened = w1.listened, !.enq = w1.enq,
                                   !.threw = w1.threw, !.pre = Pre(w0)]
    /\ UNCHANGED <<settings, botEncoding, storage, frameBuffer,
                   openQueue, ownFrames, nFrames, throwing, watchdog, workers>>

\* ------------------- redeliverMessagesTo and enqueueUndeliveredMessage,
\* statement by statement, with the holder of m_undeliveredMutex
DrainUnchanged ==
    UNCHANGED <<settings, botEncoding, out, storage, frameBuffer, stats,
                pending, openQueue, ownFrames, nFrames, throwing, drained,
                watchdog>>

\* hasUndeliveredMessages: lock_guard taken
DrainHasLock(c) ==
    /\ conns[c].st = "opening"
    /\ settings.enableUndeliveredQueue
    /\ workers.drain[c] = "idle"
    /\ workers.mutex = <<>>
    /\ workers' = [workers EXCEPT !.mutex = <<"drain", c>>, !.drain[c] = "has"]
    /\ ev' = [NoEvent EXCEPT !.kind = "DrainHasLock", !.c = c]
    /\ UNCHANGED <<conns, undelivered>>
    /\ DrainUnchanged

\* hasUndeliveredMessages: empty() read under the lock, lock released;
\* redeliverMessagesTo returns 0 on an empty queue
DrainHas(c) ==
    /\ workers.drain[c] = "has"
    /\ IF undelivered[conns[c].id] = <<>>
       THEN /\ workers' = [workers EXCEPT !.mutex = <<>>, !.drain[c] = "idle"]
            /\ conns' = [conns EXCEPT ![c].st = "open"]
       ELSE /\ workers' = [workers EXCEPT !.mutex = <<>>, !.drain[c] = "get"]
            /\ UNCHANGED conns
    /\ ev' = [NoEvent EXCEPT !.kind = "DrainHas", !.c = c]
    /\ UNCHANGED undelivered
    /\ DrainUnchanged

\* getUndeliveredMessages: takes the lock, returns the reference to the
\* queue and releases the lock on return
DrainGet(c) ==
    /\ workers.drain[c] = "get"
    /\ workers.mutex = <<>>
    /\ workers' = [workers EXCEPT !.drain[c] = "empty"]
    /\ ev' = [NoEvent EXCEPT !.kind = "DrainGet", !.c = c]
    /\ UNCHANGED <<conns, undelivered>>
    /\ DrainUnchanged

\* while (!queue.empty()): no lock is taken
DrainEmpty(c) ==
    /\ workers.drain[c] = "empty"
    /\ IF undelivered[conns[c].id] = <<>>
       THEN /\ workers' = [workers EXCEPT !.drain[c] = "idle"]
            /\ conns' = [conns EXCEPT ![c].st = "open"]
       ELSE /\ workers' = [workers EXCEPT !.drain[c] = "front"]
            /\ UNCHANGED conns
    /\ ev' = [NoEvent EXCEPT !.kind = "DrainEmpty", !.c = c]
    /\ UNCHANGED undelivered
    /\ DrainUnchanged

\* payload = queue.front(): no lock is taken; front() of a queue another
\* drain has emptied in between is undefined
DrainFront(c) ==
    /\ workers.drain[c] = "front"
    /\ IF undelivered[conns[c].id] = <<>>
       THEN workers' = [workers EXCEPT !.drain[c] = "undefined"]
       ELSE workers' = [workers EXCEPT !.drain[c] = "pop",
                                       !.local[c] = Head(undelivered[conns[c].id])]
    /\ ev' = [NoEvent EXCEPT !.kind = "DrainFront", !.c = c]
    /\ UNCHANGED <<conns, undelivered>>
    /\ DrainUnchanged

\* queue.pop(): no lock is taken
DrainPop(c) ==
    /\ workers.drain[c] = "pop"
    /\ IF undelivered[conns[c].id] = <<>>
       THEN /\ workers' = [workers EXCEPT !.drain[c] = "undefined"]
            /\ UNCHANGED undelivered
       ELSE /\ workers' = [workers EXCEPT !.drain[c] = "send"]
            /\ undelivered' = [undelivered EXCEPT ![conns[c].id] = Tail(@)]
    /\ ev' = [NoEvent EXCEPT !.kind = "DrainPop", !.c = c]
    /\ UNCHANGED conns
    /\ DrainUnchanged

\* send(payload); cnt++
DrainSend(c) ==
    /\ workers.drain[c] = "send"
    /\ workers.mutex = <<>>
    /\ drained[c].rounds < MaxDrain
    /\ LET p == workers.local[c]
           w1 == send(World, p)
       IN /\ undelivered' = w1.undelivered
          /\ stats' = w1.stats
          /\ pending' = w1.pending
          /\ out' = w1.out
          /\ drained' = [drained EXCEPT ![c] =
                [rounds |-> @.rounds + 1,
                 queued |-> IF @.rounds = 0
                            THEN Len(undelivered[conns[c].id]) + 1
                            ELSE @.queued]]
          /\ workers' = [workers EXCEPT !.drain[c] = "empty",
                                         !.local[c] = NoPayload]
          /\ ev' = [NoEvent EXCEPT !.kind = "DrainSend", !.c = c, !.payload = p,
                                   !.routed = 1, !.calls = w1.calls,
                                   !.sends = w1.sends, !.listened = w1.listened,
                                   !.enq = w1.enq, !.pre = Pre(World)]
    /\ UNCHANGED <<settings, botEncoding, conns, storage, frameBuffer,
                   openQueue, ownFrames, nFrames, throwing, watchdog>>

\* The oldest pending send of connection c completes with an error that is
\* no broken pipe: its callback calls handleUndeliverable, which calls
\* enqueueUndeliveredMessage with the copy addressed to the recipient.
EnqBegin(c) ==
    /\ pending[c] # <<>>
    /\ settings.enableUndeliveredQueue
    /\ workers.enq.pc = "idle"
    /\ LET snd == Head(pending[c])
       IN /\ pending' = [pending EXCEPT ![c] = Tail(@)]
          /\ workers' = [workers EXCEPT !.enq =
                [pc |-> "lock", uid |-> snd.recipient,
                 payload |-> setRecipient(snd.payload, snd.recipient)]]
          /\ ev' = [NoEvent EXCEPT !.kind = "EnqBegin", !.c = c,
                                   !.opcode = "error", !.done = snd.payload,
                                   !.recipient = snd.recipient]
    /\ UNCHANGED <<settings, botEncoding, conns, out, storage, frameBuffer,
                   undelivered, stats, openQueue, ownFrames, nFrames, throwing,
                   drained, watchdog>>

\* enqueueUndeliveredMessage: unique_lock taken
EnqLock ==
    /\ workers.enq.pc = "lock"
    /\ workers.mutex = <<>>
    /\ workers' = [workers EXCEPT !.mutex = <<"callback">>, !.enq.pc = "push"]
    /\ ev' = [NoEvent EXCEPT !.kind = "EnqLock"]
    /\ UNCHANGED <<conns, undelivered>>
    /\ DrainUnchanged

\* m_undeliveredMessagesMap[recipient].push(payload), under the lock
EnqPush ==
    /\ workers.enq.pc = "push"
    /\ undelivered' = [undelivered EXCEPT ![workers.enq.uid] =
                            Append(@, workers.enq.payload)]
    /\ workers' = [workers EXCEPT !.enq.pc = "unlock"]
    /\ ev' = [NoEvent EXCEPT !.kind = "EnqPush",
                             !.enq = <<[uid |-> workers.enq.uid,
                                        payload |-> workers.enq.payload]>>]
    /\ UNCHANGED conns
    /\ DrainUnchanged

\* enqueueUndeliveredMessage returns: lock released
EnqUnlock ==
    /\ workers.enq.pc = "unlock"
    /\ workers' = [workers EXCEPT !.mutex = <<>>,
                                   !.enq = [pc |-> "idle", uid |-> 0,
                                            payload |-> NoPayload]]
    /\ ev' = [NoEvent EXCEPT !.kind = "EnqUnlock"]
    /\ UNCHANGED <<conns, undelivered>>
    /\ DrainUnchanged

\* ------------------------------ the lock and unlock calls of each handler
Lock(m) == <<[op |-> "lock", m |-> m]>>
Unlock(m) == <<[op |-> "unlock", m |-> m]>>
\* a lock_guard around code that takes no other mutex
Guarded(m) == Lock(m) \o Unlock(m)

RECURSIVE Times(_, _)
Times(n, calls) == IF n = 0 THEN <<>> ELSE calls \o Times(n - 1, calls)

\* ChatServer::enqueueUndeliveredMessage
enqueueLocks == Guarded("m_undeliveredMutex")

\* ChatServer::handleUndeliverable
handleUndeliverableLocks ==
    IF settings.enableUndeliveredQueue THEN enqueueLocks ELSE <<>>

\* ChatServer::sendTo for a recipient with n connections.  On the
\* undelivered path onMessageSent is called with hasSent = false and calls
\* nothing that locks; connection->send only queues the frame.
sendToLocks(n) ==
    Lock("m_connectionMutex")
    \o Guarded("ConnectionStorage")                           \* size(recipient)
    \o (IF n = 0 THEN handleUndeliverableLocks
        ELSE Guarded("ConnectionStorage")                     \* get(recipient)
             \o Times(n, Guarded("my_mutex")))                \* getThreadName
    \o Unlock("m_connectionMutex")

\* ChatServer::send for a payload whose recipients have ns[i] connections
RECURSIVE sendLocks(_)
sendLocks(ns) ==
    IF ns = <<>> THEN <<>> ELSE sendToLocks(Head(ns)) \o sendLocks(Tail(ns))

\* ChatServer::onMessageSent(payload, n, true) for a payload that is no
\* delivery status, its sender having n connections: send(status)
onMessageSentLocks(n) ==
    IF settings.enableDeliveryStatus THEN sendLocks(<<n>>) ELSE <<>>

\* ChatServer::onMessage: kind is "buffer" (BEGIN, CONTINUE), "too_big",
\* "invalid" or "route"; fragmented says whether the frame is an END;
\* back is <<n>> when the payload is sent back to its sender
onMessageLocks(kind, fragmented, back, ns) ==
    Lock("m_connectionMutex")
    \o Guarded("my_mutex")                                    \* getThreadName
    \o (IF kind = "buffer" \/ fragmented
        THEN Guarded("m_frameBufferMutex") ELSE <<>>)
    \o (IF kind = "route" THEN sendLocks(back) \o sendLocks(ns) ELSE <<>>)
    \o Unlock("m_connectionMutex")

\* the completion callback of sendTo
sendCallbackLocks(result, n) ==
    IF result = "ok" THEN onMessageSentLocks(n)
    ELSE (IF result = "broken_pipe" THEN Guarded("ConnectionStorage") ELSE <<>>)
         \o handleUndeliverableLocks

\* ChatServer::redeliverMessagesTo with k payloads queued
redeliverLocks(k, ns) ==
    IF ~settings.enableUndeliveredQueue THEN <<>>
    ELSE Guarded("m_undeliveredMutex")                        \* hasUndelivered
         \o (IF k = 0 THEN <<>>
             ELSE Guarded("m_undeliveredMutex")               \* getUndelivered
                  \o Times(k, sendLocks(ns)))

\* ChatServer::onConnected for a request that is accepted
onConnectedLocks(k, ns) ==
    Guarded("ConnectionStorage") \o redeliverLocks(k, ns)      \* add

\* ChatServer::onDisconnected
onDisconnectedLocks(known) ==
    Guarded("ConnectionStorage")                              \* exists
    \o (IF known THEN Guarded("ConnectionStorage") ELSE <<>>) \* remove

\* ChatServer::watchdogWorker: one round over n connections of which
\* `nulls` are null, then disconnectWithoutPong
watchdogLocks(nulls) ==
    Guarded("ConnectionStorage")                              \* get()
    \o Times(nulls, Guarded("ConnectionStorage"))             \* remove
    \o Guarded("ConnectionStorage")                           \* disconnectWithoutPong

\* the completion callback of a PING: remove or markPongWait
pingCallbackLocks == Guarded("ConnectionStorage")

LockUnchanged ==
    UNCHANGED <<settings, botEncoding, conns, out, storage, frameBuffer,
                undelivered, stats, pending, openQueue, ownFrames, nFrames,
                throwing, drained, watchdog, ev>>

\* thread t is handed a handler to run
BeginHandler(t, calls) ==
    /\ workers.todo[t] = <<>>
    /\ calls # <<>>
    /\ workers' = [workers EXCEPT !.todo[t] = calls]
    /\ LockUnchanged

\* thread t asks for mutex m and cannot have it now
Blocked(t) ==
    /\ workers.todo[t] # <<>>
    /\ Head(workers.todo[t]).op = "lock"
    /\ LET m == Head(workers.todo[t]).m
       IN /\ workers.owner[m] # NoThread
          /\ ~(workers.owner[m] = t /\ is_recursive_mutex(m))

\* the pairs <<a, b>> such that the calls lock b while a is held, for a
\* thread that starts them holding `held` (mutexes with their lock counts)
RECURSIVE LockOrder(_, _)
LockOrder(calls, held) ==
    IF calls = <<>> THEN {}
    ELSE LET m == Head(calls).m
         IN IF Head(calls).op = "lock"
            THEN {<<h, m>> : h \in {x \in Mutexes : held[x] > 0} \ {m}}
                 \cup LockOrder(Tail(calls), [held EXCEPT ![m] = @ + 1])
            ELSE LockOrder(Tail(calls), [held EXCEPT ![m] = @ - 1])

\* the lock orders thread t still has before it
OrderOf(t) ==
    LockOrder(workers.todo[t],
              [m \in Mutexes |-> IF workers.owner[m] = t
                                  THEN workers.depth[m] ELSE 0])

\* thread t's next call is a lock, and it gets the mutex
AcquireMutex(t) ==
    /\ workers.todo[t] # <<>>
    /\ Head(workers.todo[t]).op = "lock"
    /\ ~Blocked(t)
    /\ LET m == Head(workers.todo[t]).m
       IN workers' = [workers EXCEPT
                !.owner[m] = t, !.depth[m] = @ + 1,
                !.todo[t] = Tail(@)]
    /\ LockUnchanged

\* thread t's next call is an unlock (the guard goes out of scope)
ReleaseMutex(t) ==
    /\ workers.todo[t] # <<>>
    /\ Head(workers.todo[t]).op = "unlock"
    /\ LET m == Head(workers.todo[t]).m
       IN workers' = [workers EXCEPT
                !.owner[m] = IF workers.depth[m] = 1 THEN NoThread ELSE @,
                !.depth[m] = @ - 1,
                !.todo[t] = Tail(@)]
    /\ LockUnchanged

\* ------------------------------------------------------------ frame buffer
\* ChatServer::writeFrameBuffer
writeFrameBuffer(fb, senderId, input, clear) ==
    IF fb[senderId] = NoBuffer THEN [fb EXCEPT ![senderId] = input]
    ELSE IF clear THEN [fb EXCEPT ![senderId] = input]
    ELSE [fb EXCEPT ![senderId] = @ \o input]

\* ChatServer::readFrameBuffer: the string it returns
readFrameBuffer(fb, senderId) ==
    IF fb[senderId] = NoBuffer THEN <<>> ELSE fb[senderId]

\* ChatServer::readFrameBuffer: the map it leaves
eraseFrameBuffer(fb, senderId, clear) ==
    IF fb[senderId] # NoBuffer /\ clear THEN [fb EXCEPT ![senderId] = NoBuffer]
    ELSE fb

IsBegin(opcode) == opcode \in {"BEGIN_TEXT", "BEGIN_BINARY"}
IsSingle(opcode) == opcode \in {"TEXT", "BINARY"}

\* --------------------------------------------------- ChatServer::onMessage
\* a test that compares the type with the ignore-set byte for byte
isIgnoredTypeExact(p) == p.type \in settings.ignoreTypesSendBack

\* the send-back test of onMessage
isIgnoredType(p) ==
    \E ignore \in settings.ignoreTypesSendBack : equalsIgnoreCase(p.type, ignore)

wantsSendBack(p) ==
    settings.enableSendBack /\ ~isIgnoredType(p) /\ ~isForBot(p)

\* a handler that routes whatever it parsed
verdictWithoutValidation(opcode, buffered) ==
    IF opcode = "END" /\ Len(buffered) > m_maxMessageSize THEN "too_big"
    ELSE "route"

\* what onMessage decides about a complete message: refuse it as too big,
\* refuse it as invalid, or route it
onMessageVerdict(opcode, buffered) ==
    IF opcode = "END" /\ Len(buffered) > m_maxMessageSize THEN "too_big"
    ELSE IF ~MessagePayload(buffered).valid THEN "invalid"
    ELSE "route"

\* the frame is a fragment that is not the last: it is buffered
OnMessageBuffer(c, opcode, body) ==
    /\ frameBuffer' = writeFrameBuffer(frameBuffer, conns[c].id, body, IsBegin(opcode))
    /\ ownFrames' = [ownFrames EXCEPT ![c] =
            IF IsBegin(opcode) THEN body
            ELSE IF @ = NoFrames THEN NoFrames ELSE @ \o body]
    /\ ev' = [NoEvent EXCEPT !.kind = "OnMessage", !.c = c, !.opcode = opcode]
    /\ UNCHANGED <<conns, out, storage, undelivered, stats, pending>>

\* the frame completes a message of bytes `buffered`; e0 is the event so far
OnMessageComplete(c, e0, buffered) ==
    LET verdict == onMessageVerdict(e0.opcode, buffered)
        p == MessagePayload(buffered)
    IN IF verdict = "too_big"
       THEN /\ conns' = [conns EXCEPT ![c].st = "closing",
                                      ![c].closeCode = "MESSAGE_TOO_BIG"]
            /\ ev' = [e0 EXCEPT !.complete = buffered,
                                !.closeCode = "MESSAGE_TOO_BIG"]
            /\ UNCHANGED <<out, storage, undelivered, stats, pending>>
       ELSE IF verdict = "invalid"
       THEN /\ conns' = [conns EXCEPT ![c].st = "closing",
                                      ![c].closeCode = "INVALID_MESSAGE_PAYLOAD"]
            /\ ev' = [e0 EXCEPT !.complete = buffered,
                                !.closeCode = "INVALID_MESSAGE_PAYLOAD",
                                !.parsed = TRUE, !.payload = p]
            /\ UNCHANGED <<out, storage, undelivered, stats, pending>>
       ELSE LET wb == IF wantsSendBack(p) THEN sendTo(World, p.sender, p) ELSE World
                w0 == ClearLog(wb)
                w1 == send(w0, p)
            IN /\ undelivered' = w1.undelivered
               /\ stats' = w1.stats
               /\ pending' = w1.pending
               /\ out' = w1.out
               /\ ev' = [e0 EXCEPT !.complete = buffered, !.parsed = TRUE,
                                   !.payload = p, !.backCalls = wb.calls,
                                   !.routed = 1, !.calls = w1.calls,
                                   !.sends = w1.sends, !.listened = w1.listened,
                                   !.enq = w1.enq, !.threw = w1.threw,
                                   !.pre = Pre(w0)]
               /\ UNCHANGED <<conns, storage>>

\* The transport delivers a frame of connection c (a PONG never gets here).
OnMessage(c, opcode, body) ==
    /\ conns[c].st = "open"
    /\ IF IsBegin(opcode) \/ opcode = "CONTINUE"
       THEN /\ nFrames.fragments < MaxFragments
            /\ nFrames' = [nFrames EXCEPT !.fragments = @ + 1]
       ELSE /\ nFrames.messages < MaxMessages
            /\ nFrames' = [nFrames EXCEPT !.messages = @ + 1]
    /\ IF IsBegin(opcode) \/ opcode = "CONTINUE"
       THEN OnMessageBuffer(c, opcode, body)
       ELSE IF opcode = "END"
       THEN /\ frameBuffer' = eraseFrameBuffer(frameBuffer, conns[c].id, TRUE)
            /\ ownFrames' = [ownFrames EXCEPT ![c] = NoFrames]
            /\ OnMessageComplete(c,
                    [NoEvent EXCEPT !.kind = "OnMessage", !.c = c, !.opcode = opcode,
                        !.own = IF ownFrames[c] = NoFrames THEN NoFrames
                                ELSE ownFrames[c] \o body],
                    readFrameBuffer(frameBuffer, conns[c].id) \o body)
       ELSE /\ UNCHANGED <<frameBuffer, ownFrames>>
            /\ OnMessageComplete(c,
                    [NoEvent EXCEPT !.kind = "OnMessage", !.c = c, !.opcode = opcode],
                    body)
    /\ UNCHANGED <<settings, botEncoding, openQueue, throwing, drained,
                   watchdog, workers>>

\* ----------------------------------------------- ChatServer::onDisconnected
\* ConnectionStorage::remove(connection)
removeConnection(st, c) == [u \in Users |-> st[u] \ {c}]

\* The transport reports connection c closed (by the client, or after the
\* server's close frame).
OnDisconnected(c) ==
    /\ conns[c].st \in {"open", "closing"}
    /\ conns' = [conns EXCEPT ![c].st = "closed"]
    /\ IF storage[conns[c].id] = {}
       THEN UNCHANGED <<stats, storage>>
       ELSE /\ stats' = [stats EXCEPT ![conns[c].id] =
                    [@ EXCEPT !.exists = TRUE, !.disconnections = @ + 1]]
            /\ storage' = removeConnection(storage, c)
    /\ ev' = [NoEvent EXCEPT !.kind = "OnDisconnected", !.c = c]
    /\ UNCHANGED <<settings, botEncoding, out, frameBuffer, undelivered,
                   pending, openQueue, ownFrames, nFrames, throwing, drained,
                   watchdog, workers>>

\* ------------------------------------- the completion callback of sendTo
\* a callback that evicts the connection on every error
sendCallbackEvictAlways(w, snd, result) ==
    IF result # "ok"
    THEN handleUndeliverable(
            [w EXCEPT !.storage[snd.recipient] = @ \ {snd.cid}],
            snd.recipient, snd.payload)
    ELSE onMessageSent(w, setRecipient(snd.payload, snd.recipient),
                       Len(toJson(snd.payload)), TRUE)

\* what the callback does with the error code
sendCallback(w, snd, result) ==
    IF result # "ok"
    THEN handleUndeliverable(
            IF result = "broken_pipe"
            THEN [w EXCEPT !.storage[snd.recipient] = @ \ {snd.cid}]
            ELSE w,
            snd.recipient, snd.payload)
    ELSE onMessageSent(w, setRecipient(snd.payload, snd.recipient),
                       Len(toJson(snd.payload)), TRUE)

\* The transport completes the oldest pending send of connection c with
\* `result` and runs its callback.
SendCompleted(c, result) ==
    /\ pending[c] # <<>>
    /\ LET snd == Head(pending[c])
           w0 == [World EXCEPT !.pending[c] = Tail(@)]
           w1 == sendCallback(w0, snd, result)
           st == settings.enableDeliveryStatus /\ result = "ok"
                    /\ ~isTypeOfSentStatus(snd.payload)
       IN /\ storage' = w1.storage
          /\ undelivered' = w1.undelivered
          /\ stats' = w1.stats
          /\ pending' = w1.pending
          /\ out' = w1.out
          /\ ev' = [NoEvent EXCEPT
                        !.kind = "SendCompleted", !.c = snd.cid, !.opcode = result,
                        !.done = snd.payload, !.recipient = snd.recipient,
                        !.payload = IF st
                                    THEN createSendStatus(
                                            setRecipient(snd.payload, snd.recipient))
                                    ELSE NoPayload,
                        !.routed = IF st THEN 1 ELSE 0,
                        !.calls = w1.calls, !.sends = w1.sends, !.listened = w1.listened,
                        !.enq = w1.enq, !.threw = w1.threw,
                        !.pre = IF st
                                THEN Pre(accountMessage(w0,
                                        setRecipient(snd.payload, snd.recipient),
                                        Len(toJson(snd.payload)), TRUE))
                                ELSE Pre(w0)]
    /\ UNCHANGED <<settings, botEncoding, conns, frameBuffer, openQueue,
                   ownFrames, nFrames, throwing, drained, watchdog, workers>>

\* ------------------------------------------- ChatServer::watchdogWorker
\* pings: connections whose PING completion callback has not run yet;
\* pongWait: connections in liveness state awaiting-pong; owed: connections
\* whose client has a PING to answer; ponged: connections whose PONG was
\* processed since the last round began
WatchdogOn == [WatchdogOff EXCEPT !.pc = "sleep60"]

\* a sleep that no interrupt ends
sleepUninterruptible(wd, next) == next

\* boost::this_thread::sleep_for inside the try block: thread_interrupted
\* leaves the loop, otherwise the thread goes on with `next`
sleep_for(wd, next) == IF wd.interrupted THEN "exited" ELSE next

\* a round that pings whatever the inactive time
pingAlways(u, I) == "ping"

\* what a round does with a connection of user u, I being the users whose
\* getInactiveTime() has reached the lifetime
watchdogVerdict(u, I) == IF u \in I THEN "close" ELSE "ping"

\* the registry as the round iterates it: <<user, connection>> in order
registered(st) ==
    LET pairs == {<<u, c>> \in Users \X ConnIds : c \in st[u]}
        key(q) == q[1] * (MaxConn + 1) + q[2]
        keys == SortedSeq({key(q) : q \in pairs})
    IN [i \in 1..Len(keys) |-> CHOOSE q \in pairs : key(q) = keys[i]]

\* the first sleep of the loop ends
WatchdogSleep60 ==
    /\ watchdog.pc = "sleep60"
    /\ watchdog' = [watchdog EXCEPT !.pc = sleep_for(watchdog, "round")]
    /\ ev' = [NoEvent EXCEPT !.kind = "WatchdogSleep60"]
    /\ UNCHANGED <<settings, botEncoding, conns, out, storage, frameBuffer,
                   undelivered, stats, pending, openQueue, ownFrames, nFrames,
                   throwing, drained, workers>>

\* the loop over the registry.  (Two PINGs in flight on one connection are
\* kept as one: their completions do the same.)
WatchdogRound(I) ==
    /\ watchdog.pc = "round"
    /\ LET all == registered(storage)
           toClose == SelectSeq(all, LAMBDA q : watchdogVerdict(q[1], I) = "close")
           toPing == SelectSeq(all, LAMBDA q : watchdogVerdict(q[1], I) = "ping")
           closing == {toClose[i][2] : i \in 1..Len(toClose)}
       IN /\ conns' = [c \in ConnIds |->
                IF c \in closing
                THEN [conns[c] EXCEPT
                        !.st = IF @ = "open" THEN "closing" ELSE @,
                        !.closeCode = "INACTIVE_CONNECTION"]
                ELSE conns[c]]
          /\ watchdog' = [watchdog EXCEPT
                !.pc = "sleep2",
                !.pings = @ \cup {toPing[i][2] : i \in 1..Len(toPing)},
                !.owed = @ \cup {toPing[i][2] : i \in 1..Len(toPing)},
                !.ponged = {}]
          /\ ev' = [NoEvent EXCEPT
                !.kind = "WatchdogRound", !.inactive = I,
                !.closed = [i \in 1..Len(toClose) |-> toClose[i][2]],
                !.pinged = [i \in 1..Len(toPing) |-> toPing[i][2]]]
    /\ UNCHANGED <<settings, botEncoding, out, storage, frameBuffer,
                   undelivered, stats, pending, openQueue, ownFrames, nFrames,
                   throwing, drained, workers>>

\* the second sleep of the loop ends
WatchdogSleep2 ==
    /\ watchdog.pc = "sleep2"
    /\ watchdog' = [watchdog EXCEPT !.pc = sleep_for(watchdog, "prune")]
    /\ ev' = [NoEvent EXCEPT !.kind = "WatchdogSleep2"]
    /\ UNCHANGED <<settings, botEncoding, conns, out, storage, frameBuffer,
                   undelivered, stats, pending, openQueue, ownFrames, nFrames,
                   throwing, drained, workers>>

\* ConnectionStorage::disconnectWithoutPong: closes and removes the
\* connections still awaiting their pong
WatchdogPrune ==
    /\ watchdog.pc = "prune"
    /\ storage' = [u \in Users |-> storage[u] \ watchdog.pongWait]
    /\ conns' = [c \in ConnIds |->
            IF c \in watchdog.pongWait /\ conns[c].st = "open"
            THEN [conns[c] EXCEPT !.st = "closing"] ELSE conns[c]]
    /\ watchdog' = [watchdog EXCEPT !.pc = "sleep60", !.pongWait = {}]
    /\ ev' = [NoEvent EXCEPT !.kind = "WatchdogPrune",
                             !.closed = SortedSeq(watchdog.pongWait)]
    /\ UNCHANGED <<settings, botEncoding, out, frameBuffer,
                   undelivered, stats, pending, openQueue, ownFrames, nFrames,
                   throwing, drained, workers>>

\* the completion callback of a PING
PingCompleted(c, result) ==
    /\ c \in watchdog.pings
    /\ IF result = "ok"
       THEN /\ watchdog' = [watchdog EXCEPT !.pings = @ \ {c},
                                             !.pongWait = @ \cup {c}]
            /\ UNCHANGED storage
       ELSE /\ watchdog' = [watchdog EXCEPT !.pings = @ \ {c},
                                             !.owed = @ \ {c}]
            /\ storage' = removeConnection(storage, c)
    /\ ev' = [NoEvent EXCEPT !.kind = "PingCompleted", !.c = c, !.opcode = result]
    /\ UNCHANGED <<settings, botEncoding, conns, out, frameBuffer,
                   undelivered, stats, pending, openQueue, ownFrames, nFrames,
                   throwing, drained, workers>>

\* ChatServer::onPong: ConnectionStorage::markPongReceived.  The client's
\* PONG answers a PING that is on the wire; the completion callback of that
\* PING runs on a worker of the pool, before or after this handler.
OnPong(c) ==
    /\ conns[c].st = "open"
    /\ c \in watchdog.owed
    /\ watchdog' = [watchdog EXCEPT !.pongWait = @ \ {c}, !.owed = @ \ {c},
                                    !.ponged = @ \cup {c}]
    /\ ev' = [NoEvent EXCEPT !.kind = "OnPong", !.c = c]
    /\ UNCHANGED <<settings, botEncoding, conns, out, storage, frameBuffer,
                   undelivered, stats, pending, openQueue, ownFrames, nFrames,
                   throwing, drained, workers>>

\* ChatServer::stopService with the watchdog thread running
StopService ==
    /\ watchdog.pc # "off"
    /\ ~watchdog.interrupted
    /\ watchdog' = [watchdog EXCEPT !.interrupted = TRUE]
    /\ ev' = [NoEvent EXCEPT !.kind = "StopService"]
    /\ UNCHANGED <<settings, botEncoding, conns, out, storage, frameBuffer,
                   undelivered, stats, pending, openQueue, ownFrames, nFrames,
                   throwing, drained, workers>>

\* the steps of the watchdog thread
WatchdogThread ==
    \/ WatchdogSleep60
    \/ \E I \in SUBSET {u \in Users : storage[u] # {}} : WatchdogRound(I)
    \/ WatchdogSleep2
    \/ WatchdogPrune

\* ------------------------------------------------------------------ Next
\* the steps of the server when the clients draw their query strings from Q,
\* their credentials from A, their frames from F, and the transport
\* completes sends with the results R
Step(Q, A, F, R) ==
    \/ \E c \in ConnIds, q \in Q, a \in A : OnConnected(c, q, a)
    \/ \E c \in ConnIds : RedeliverReturn(c)
    \/ \E c \in ConnIds : RedeliverStep(c)
    \/ \E c \in ConnIds, f \in F : OnMessage(c, f[1], f[2])
    \/ \E c \in ConnIds : OnDisconnected(c)
    \/ \E c \in ConnIds, r \in R : SendCompleted(c, r)

Results == {"ok", "broken_pipe", "error"}

\* the server with every input of the model
Init == InitWith(SettingsSet, {"only0", "contains0"})
Next == Step(Queries, BOOLEAN, Frames, Results)
Spec == Init /\ [][Next]_vars

\* Clients that authenticate as user 1 or 2 and send complete, valid
\* messages; every send succeeds.  Send-back and the undelivered queue on
\* or off, no delivery status, both encodings.
IdQueries == { {<<"id", <<"1">>>>}, {<<"id", <<"2">>>>} }
TextFrames ==
    {f \in Frames : /\ IsSingle(f[1])
                    /\ MessagePayload(f[2]).valid
                    /\ Len(f[2]) <= m_maxMessageSize}
InitRoute ==
    InitWith({s \in SettingsSet : ~s.enableDeliveryStatus}, {"only0", "contains0"})
NextRoute == Step(IdQueries, {TRUE}, TextFrames, {"ok"})
SpecRoute == InitRoute /\ [][NextRoute]_vars

\* Clients with every query string and credential; one kind of message.
QueueOnly ==
    [enableSendBack |-> FALSE, ignoreTypesSendBack |-> {<<"t">>},
     enableUndeliveredQueue |-> TRUE, enableDeliveryStatus |-> FALSE]
InitQueue == InitWith({QueueOnly}, {"only0"})
NextOpen == Step(Queries, BOOLEAN, {<<"TEXT", <<"m", "1", "2">>>>}, {"ok"})
SpecOpen == InitQueue /\ [][NextOpen]_vars

\* Clients that send fragmented messages.
FragmentFrames == {f \in Frames : ~IsSingle(f[1])}
NextFrag == Step(IdQueries, {TRUE}, FragmentFrames, {"ok"})
SpecFrag == InitQueue /\ [][NextFrag]_vars

\* Clients that send messages the server refuses, whole or in fragments.
RejectFrames ==
    {f \in Frames : \/ IsSingle(f[1]) /\ f \notin TextFrames
                    \/ f[2] \in {<<"m">>, <<"m", "1", "2">>, Tail(Oversize)}}
NextReject == Step(IdQueries, {TRUE}, RejectFrames, {"ok"})
SpecReject == InitQueue /\ [][NextReject]_vars

\* Clients that send to user 2 while user 2 connects.
NextDrain ==
    Step(IdQueries, {TRUE},
         {<<"TEXT", <<"m", "1", "2">>>>, <<"TEXT", <<"T", "1", "2">>>>}, {"ok"})
SpecDrain == InitQueue /\ [][NextDrain]_vars

\* Clients that exchange messages, and send forged status payloads, with
\* the delivery status enabled.
StatusFrames == {<<"TEXT", <<"m", "1", "2">>>>, <<"TEXT", <<"s", "1", "2">>>>}
InitStatus ==
    InitWith({s \in SettingsSet : s.enableDeliveryStatus /\ ~s.enableSendBack},
             {"only0"})
NextStatus == Step(IdQueries, {TRUE}, StatusFrames, {"ok"})
SpecStatus == InitStatus /\ [][NextStatus]_vars

\* Clients that send to user 2 while a registered listener raises.
InitListen == InitEnv({QueueOnly}, {"only0"}, 0..NumListeners, {WatchdogOff})
SpecListen == InitListen /\ [][NextDrain]_vars

\* Connections of user 2 that receive what they send, over a transport
\* whose sends may fail; the undelivered queue on or off.
InitError ==
    InitWith({s \in SettingsSet : ~s.enableDeliveryStatus /\ ~s.enableSendBack},
             {"only0"})
NextError ==
    Step({ {<<"id", <<"2">>>>} }, {TRUE}, {<<"TEXT", <<"m", "1", "2">>>>}, Results)
SpecError == InitError /\ [][NextError]_vars

\* The server with the watchdog enabled: clients connect as user 1 or 2,
\* answer PINGs or not, and the service may be stopped.
InitWatch == InitEnv({QueueOnly}, {"only0"}, {0}, {WatchdogOn})
NextWatch ==
    \/ \E c \in ConnIds, q \in IdQueries : OnConnected(c, q, TRUE)
    \/ \E c \in ConnIds : RedeliverReturn(c)
    \/ \E c \in ConnIds : OnDisconnected(c)
    \/ WatchdogThread
    \/ \E c \in ConnIds, r \in {"ok", "error"} : PingCompleted(c, r)
    \/ \E c \in ConnIds : OnPong(c)
    \/ StopService
SpecWatch == InitWatch /\ [][NextWatch]_vars

\* The same with connections of user 2 that stay: the watchdog thread is
\* scheduled as long as it has a step to take.
NextStop ==
    \/ \E c \in ConnIds : OnConnected(c, {<<"id", <<"2">>>>}, TRUE)
    \/ \E c \in ConnIds : RedeliverReturn(c)
    \/ WatchdogThread
    \/ \E c \in ConnIds, r \in {"ok", "error"} : PingCompleted(c, r)
    \/ StopService
SpecStopFair == InitWatch /\ [][NextStop]_vars /\ WF_vars(WatchdogThread)

\* The drain on connect and the enqueue of a failed send, statement by
\* statement: connections of user 2 that receive what they send.
NextLock ==
    \/ \E c \in ConnIds : OnConnected(c, {<<"id", <<"2">>>>}, TRUE)
    \/ \E c \in ConnIds : DrainHasLock(c)
    \/ \E c \in ConnIds : DrainHas(c)
    \/ \E c \in ConnIds : DrainGet(c)
    \/ \E c \in ConnIds : DrainEmpty(c)
    \/ \E c \in ConnIds : DrainFront(c)
    \/ \E c \in ConnIds : DrainPop(c)
    \/ \E c \in ConnIds : DrainSend(c)
    \/ \E c \in ConnIds :
            workers.mutex = <<>> /\ OnMessage(c, "TEXT", <<"m", "1", "2">>)
    \/ \E c \in ConnIds : EnqBegin(c)
    \/ EnqLock
    \/ EnqPush
    \/ EnqUnlock
SpecLock == InitQueue /\ [][NextLock]_vars

\* connection counts of the recipients of one payload
Fanouts == {<<>>, <<0>>, <<MaxConn>>}

\* what a worker of the pool may be asked to run
PoolHandlers ==
    {onMessageLocks("buffer", FALSE, <<>>, <<>>),
     onMessageLocks("too_big", TRUE, <<>>, <<>>),
     onMessageLocks("invalid", FALSE, <<>>, <<>>)}
    \cup {onMessageLocks("route", f, b, ns) :
            f \in BOOLEAN, b \in {<<>>, <<0>>, <<1>>}, ns \in Fanouts}
    \cup {sendCallbackLocks(r, n) : r \in Results, n \in {0, 1}}
    \cup {onConnectedLocks(k, ns) : k \in {0, 1}, ns \in Fanouts}
    \cup {onDisconnectedLocks(b) : b \in BOOLEAN}
    \cup {pingCallbackLocks}

\* what the watchdog thread runs
WatchdogHandlers == {watchdogLocks(n) : n \in {0, 1}}

\* The lock and unlock calls of the handlers, interleaved on the pool's
\* workers and the watchdog thread; every option on.
InitMutex ==
    InitEnv({s \in SettingsSet : s.enableUndeliveredQueue /\ s.enableDeliveryStatus},
            {"only0"}, {0}, {WatchdogOn})
NextMutex ==
    \/ \E t \in PoolThreads, calls \in PoolHandlers : BeginHandler(t, calls)
    \/ \E calls \in WatchdogHandlers : BeginHandler(WatchdogThreadId, calls)
    \/ \E t \in Threads : AcquireMutex(t)
    \/ \E t \in Threads : ReleaseMutex(t)
SpecMutex == InitMutex /\ [][NextMutex]_vars

\* ================================================================ claims
OncePerListener(p) == [i \in 1..NumListeners |-> [listener |-> i, payload |-> p]]
Range(f) == {f[i] : i \in DOMAIN f}
Registered(c) == \E u \in Users : c \in storage[u]

\* C1: when send(P) runs for a payload P that is not for-bot, every
\* registered connection of every recipient uid # 0 of P gets exactly one
\* asynchronous send, carrying P's serialization, and no connection of a
\* user outside P.recipients gets any.
C1_SendFanOut ==
    (ev.routed = 1 /\ ~isForBot(ev.payload)) =>
        \A c \in ConnIds :
            LET mine == {i \in 1..Len(ev.sends) : ev.sends[i].cid = c}
                owners == {u \in ev.payload.recipients \ {0} : c \in storage[u]}
            IN /\ Cardinality(mine) = Cardinality(owners)
               /\ \A i \in mine :
                    /\ ev.sends[i].recipient \in owners
                    /\ toJson(ev.sends[i].payload) = toJson(ev.payload)
                    /\ \E k \in 1..Len(pending[c]) : pending[c][k] = ev.sends[i]

\* send(P) has just fanned a payload out to two connections of one user
C1_Witness ==
    /\ ev.routed = 1 /\ ~isForBot(ev.payload)
    /\ Len(ev.sends) = 2
    /\ \E u \in ev.payload.recipients : Cardinality(storage[u]) = 2

\* C2 as claimed: with the undelivered queue enabled, routing any payload P
\* while no recipient of P has a live connection appends exactly one copy
\* of P, addressed to {r}, to UndeliveredQueue[r] for every recipient r.
C2_AsClaimed ==
    (/\ ev.routed = 1
     /\ settings.enableUndeliveredQueue
     /\ \A r \in ev.payload.recipients : storage[r] = {}) =>
        \A r \in ev.payload.recipients :
            undelivered[r] =
                Append(ev.pre.undelivered[r], setRecipient(ev.payload, r))

\* C2 amended: the same for a payload that is not for-bot and for its
\* recipients other than the reserved user 0; every other queue is left as
\* it was.
C2_QueuedOncePerRecipient ==
    (/\ ev.routed = 1
     /\ settings.enableUndeliveredQueue
     /\ ~isForBot(ev.payload)
     /\ \A r \in ev.payload.recipients \ {0} : storage[r] = {}) =>
        \A u \in Users :
            undelivered[u] =
                IF u \in ev.payload.recipients \ {0}
                THEN Append(ev.pre.undelivered[u], setRecipient(ev.payload, u))
                ELSE ev.pre.undelivered[u]

\* send(P) has just queued a payload for an absent recipient
C2_Witness ==
    /\ ev.routed = 1 /\ settings.enableUndeliveredQueue
    /\ ~isForBot(ev.payload)
    /\ ev.payload.recipients \ {0} # {}
    /\ \A r \in ev.payload.recipients \ {0} : storage[r] = {}
    /\ Len(ev.enq) >= 1

\* C3: when the open handler of a connection of user u has returned, the
\* messages written to that connection begin with the payloads that
\* UndeliveredQueue[u] held when the connection was registered, in queue
\* order, whatever the other workers did in between.
WireSeq(q) == [i \in 1..Len(q) |-> toJson(q[i])]

C3_DrainBeforeDeliver ==
    \A c \in ConnIds :
        (settings.enableUndeliveredQueue /\ conns[c].st = "open") =>
            out[c] = WireSeq(openQueue[c])

\* C4: at the END of a fragmented message that a connection began with
\* BEGIN, the bytes assembled for parsing are the bodies of that
\* connection's own fragments, in arrival order.
C4_Reassembly ==
    (ev.kind = "OnMessage" /\ ev.opcode = "END" /\ ev.own # NoFrames) =>
        ev.complete = ev.own

\* C5: a complete message longer than the limit, single or reassembled,
\* is refused with MESSAGE_TOO_BIG: it is not parsed, not sent back, not
\* given to any listener, not sent and not queued.
C5_Oversize ==
    (/\ ev.kind = "OnMessage"
     /\ IsSingle(ev.opcode) \/ ev.opcode = "END"
     /\ Len(ev.complete) > m_maxMessageSize) =>
        /\ ev.closeCode = "MESSAGE_TOO_BIG"
        /\ conns[ev.c].closeCode = "MESSAGE_TOO_BIG"
        /\ ~ev.parsed
        /\ ev.backCalls = <<>> /\ ev.routed = 0 /\ ev.listened = <<>>
        /\ ev.sends = <<>> /\ ev.enq = <<>>

\* C6: when the complete message parses as an invalid payload, onMessage
\* closes the sending connection with INVALID_MESSAGE_PAYLOAD and stops:
\* no listener is invoked, no send is issued, and the undelivered queue,
\* the statistics and the registry stay as they were.
C6_InvalidPayload ==
    [][(ev'.kind = "OnMessage" /\ ev'.parsed /\ ~ev'.payload.valid) =>
        /\ ev'.closeCode = "INVALID_MESSAGE_PAYLOAD"
        /\ conns'[ev'.c].closeCode = "INVALID_MESSAGE_PAYLOAD"
        /\ conns'[ev'.c].st = "closing"
        /\ ev'.listened = <<>> /\ ev'.routed = 0
        /\ ev'.backCalls = <<>> /\ ev'.calls = <<>> /\ ev'.sends = <<>>
        /\ pending' = pending /\ out' = out
        /\ undelivered' = undelivered
        /\ stats' = stats
        /\ storage' = storage]_vars

\* an invalid payload has just been refused while a message was waiting in
\* an undelivered queue
C6_Witness ==
    /\ ev.kind = "OnMessage" /\ ev.parsed /\ ~ev.payload.valid
    /\ ev.closeCode = "INVALID_MESSAGE_PAYLOAD"
    /\ \E u \in Users : undelivered[u] # <<>>

\* C7: when the authenticator refuses the request, the open handler closes
\* the connection with UNAUTHORIZED and stops: the registry, the statistics
\* and the undelivered queue stay as they were, the drain is never started,
\* and the connection is never found in the registry.
C7_Unauthorized ==
    /\ [](\A c \in ConnIds :
            conns[c].closeCode = "UNAUTHORIZED" => ~Registered(c))
    /\ [][(ev'.kind = "OnConnected" /\ ~ev'.auth) =>
            /\ ev'.closeCode = "UNAUTHORIZED"
            /\ conns'[ev'.c].closeCode = "UNAUTHORIZED"
            /\ conns'[ev'.c].st = "closing"
            /\ storage' = storage
            /\ stats' = stats
            /\ undelivered' = undelivered
            /\ pending' = pending /\ out' = out]_vars

\* a request for user 2 has just been refused by the authenticator while
\* a message was queued for user 2
C7_Witness ==
    /\ ev.kind = "OnConnected" /\ ~ev.auth
    /\ ev.closeCode = "UNAUTHORIZED"
    /\ hasParam(ev.params, "id") /\ getParam(ev.params, "id") = <<"2">>
    /\ undelivered[2] # <<>>

\* C8: with authentication passed, a request whose id is missing, empty or
\* no UserId (not a decimal number, or a number above the unsigned range)
\* is closed with INVALID_QUERY_PARAMS and not registered; a connection is
\* registered only when its id is present, not empty and a UserId.
ParsesAsUserId(str) ==
    /\ str # <<>>
    /\ PrefixLen(str, Digits) = Len(str)
    /\ ~ExceedsUlong(str)

IdAccepted(params) ==
    hasParam(params, "id") /\ ParsesAsUserId(getParam(params, "id"))

C8_InvalidQuery ==
    ev.kind = "OnConnected" =>
        /\ (ev.auth /\ ~IdAccepted(ev.params)) =>
                /\ ev.closeCode = "INVALID_QUERY_PARAMS"
                /\ conns[ev.c].closeCode = "INVALID_QUERY_PARAMS"
                /\ ~Registered(ev.c)
        /\ Registered(ev.c) => IdAccepted(ev.params)

\* C9: a valid inbound payload is sent back to its sender exactly when
\* send-back is enabled, its type equals no entry of the ignore-set up to
\* case, and it is not for-bot; in every case it is then routed through
\* send once (every listener hears it once).
LowerStr(str) == [i \in 1..Len(str) |-> ToLowerChar(str[i])]

C9_SendBack ==
    (ev.kind = "OnMessage" /\ ev.parsed /\ ev.payload.valid) =>
        LET ignored == \E t \in settings.ignoreTypesSendBack :
                            LowerStr(t) = LowerStr(ev.payload.type)
            expected == /\ settings.enableSendBack
                        /\ ~ignored
                        /\ ~isForBot(ev.payload)
        IN /\ ev.backCalls = IF expected THEN <<ev.payload.sender>> ELSE <<>>
           /\ ev.routed = 1
           /\ ev.listened = OncePerListener(ev.payload)

\* a payload whose type differs from an ignored type by case only came in
\* with send-back enabled, and was not sent back
C9_Witness ==
    /\ ev.kind = "OnMessage" /\ ev.payload.valid
    /\ settings.enableSendBack
    /\ ev.payload.type = <<"T">>
    /\ ev.payload.type \notin settings.ignoreTypesSendBack
    /\ ev.backCalls = <<>>
    /\ ev.routed = 1

\* C10: routing a for-bot payload invokes the listeners and nothing else
\* (no sendTo, no send on a socket, no queue entry, no change of the
\* statistics); routing any other payload never calls sendTo for user 0,
\* sends nothing for user 0 and queues nothing for user 0.
C10_BotOnly ==
    ev.routed = 1 =>
        /\ ev.listened = OncePerListener(ev.payload)
        /\ isForBot(ev.payload) =>
                /\ ev.calls = <<>> /\ ev.sends = <<>> /\ ev.enq = <<>>
                /\ undelivered = ev.pre.undelivered
                /\ stats = ev.pre.stats
        /\ ~isForBot(ev.payload) =>
                /\ 0 \notin Range(ev.calls)
                /\ \A i \in 1..Len(ev.sends) : ev.sends[i].recipient # 0
                /\ \A i \in 1..Len(ev.enq) : ev.enq[i].uid # 0
                /\ undelivered[0] = ev.pre.undelivered[0]

\* a payload that is not for-bot and names user 0 among its recipients has
\* just been routed to the others
C10_Witness ==
    /\ ev.routed = 1
    /\ ~isForBot(ev.payload)
    /\ 0 \in ev.payload.recipients
    /\ ev.calls # <<>>

\* C11: a sent-status payload never causes another one.  Routing it (from
\* a callback, from a client or from the drain) changes no statistics and
\* sends or queues nothing but the payload itself; when a send of it
\* completes, or fails, send() is not called, nothing is sent and the
\* statistics stay as they were.
C11_NoStatusRecursion ==
    /\ (ev.routed = 1 /\ isTypeOfSentStatus(ev.payload)) =>
            /\ stats = ev.pre.stats
            /\ \A i \in 1..Len(ev.sends) : ev.sends[i].payload = ev.payload
            /\ \A i \in 1..Len(ev.enq) :
                    ev.enq[i].payload = setRecipient(ev.payload, ev.enq[i].uid)
    /\ (ev.kind = "SendCompleted" /\ isTypeOfSentStatus(ev.done)) =>
            /\ ev.routed = 0 /\ ev.sends = <<>> /\ ev.listened = <<>>
            /\ ev.enq = <<>>
            /\ stats = ev.pre.stats

\* the send of a status payload, created for a delivered message, has just
\* completed
C11_Witness ==
    /\ ev.kind = "SendCompleted" /\ ev.opcode = "ok"
    /\ isTypeOfSentStatus(ev.done) /\ ev.done.sender = 0
    /\ \E u \in Users : stats[u].received > 0

\* C12: whatever a listener raises, routing a payload invokes every
\* listener, calls sendTo for every recipient other than 0 of a payload
\* that is not for-bot, and lets no exception leave the handler.
C12_ListenerGuard ==
    ev.routed = 1 =>
        /\ ev.threw = ""
        /\ ev.listened = OncePerListener(ev.payload)
        /\ ~isForBot(ev.payload) =>
                \A r \in ev.payload.recipients \ {0} : r \in Range(ev.calls)

\* C13: the registry never holds a connection under the reserved user 0.
C13_ZeroReserved == storage[0] = {}

\* C14: with send-back and delivery status disabled, and every message
\* sent by user 1 to the one recipient 2, the send counter of user 1 and
\* the received counter of user 2 grow by one for a message that was
\* delivered: neither ever exceeds the number of messages that came in.
C14_CountedOncePerRecipient ==
    /\ stats[1].sent <= nFrames.messages
    /\ stats[2].received <= nFrames.messages

\* C15: when a send to a connection of user uid completes with an error,
\* the payload is handed to handleUndeliverable(uid, payload): with the
\* queue enabled one copy addressed to {uid} is appended to uid's queue,
\* with the queue disabled nothing is queued; the connection leaves the
\* registry exactly when the error is a broken pipe; nothing is routed and
\* no counter changes.
C15_SendError ==
    [][(ev'.kind = "SendCompleted" /\ ev'.opcode # "ok") =>
        LET uid == ev'.recipient
            copy == setRecipient(ev'.done, uid)
        IN /\ ev'.enq = IF settings.enableUndeliveredQueue
                         THEN <<[uid |-> uid, payload |-> copy]>> ELSE <<>>
           /\ undelivered' = IF settings.enableUndeliveredQueue
                              THEN [undelivered EXCEPT ![uid] = Append(@, copy)]
                              ELSE undelivered
           /\ storage' = IF ev'.opcode = "broken_pipe"
                          THEN [storage EXCEPT ![uid] = @ \ {ev'.c}]
                          ELSE storage
           /\ ev'.routed = 0 /\ ev'.sends = <<>>
           /\ stats' = stats]_vars

\* a send has just failed with an error that is no broken pipe: the payload
\* is queued and the connection is still registered
C15_Witness ==
    /\ ev.kind = "SendCompleted" /\ ev.opcode = "error"
    /\ ev.c \in storage[ev.recipient]
    /\ settings.enableUndeliveredQueue
    /\ Len(ev.enq) = 1

\* C16: in a watchdog round every registered connection of a user whose
\* inactive time has reached the lifetime is sent a close with
\* INACTIVE_CONNECTION and no PING, and every other registered connection
\* is sent exactly one PING; a PING that completes successfully marks its
\* connection awaiting-pong and leaves the registry alone, a PING that
\* completes with any error removes its connection from the registry.
C16_WatchdogRound ==
    /\ [](ev.kind = "WatchdogRound" =>
            \A u \in Users : \A c \in storage[u] :
                LET nPing == Cardinality({i \in 1..Len(ev.pinged) : ev.pinged[i] = c})
                    nClose == Cardinality({i \in 1..Len(ev.closed) : ev.closed[i] = c})
                IN IF u \in ev.inactive
                   THEN /\ nClose = 1 /\ nPing = 0
                        /\ conns[c].closeCode = "INACTIVE_CONNECTION"
                   ELSE /\ nPing = 1 /\ nClose = 0
                        /\ c \in watchdog.pings)
    /\ [][ev'.kind = "PingCompleted" =>
            IF ev'.opcode = "ok"
            THEN /\ ev'.c \in watchdog'.pongWait
                 /\ storage' = storage
            ELSE /\ \A u \in Users : ev'.c \notin storage'[u]
                 /\ watchdog'.pongWait = watchdog.pongWait]_vars

\* a round has just closed the connection of an inactive user and pinged
\* the connection of an active one
C16_Witness ==
    /\ ev.kind = "WatchdogRound"
    /\ Len(ev.closed) = 1 /\ Len(ev.pinged) = 1

\* C17: once stopService has interrupted the watchdog, the thread leaves
\* its loop at the sleep it is in or at the next one it reaches, and
\* eventually has left; after it has left, no ping round and no
\* disconnect-without-pong step is taken.
C17_StopExits ==
    /\ watchdog.interrupted ~> watchdog.pc = "exited"
    /\ [][(watchdog.interrupted /\ watchdog.pc \in {"sleep60", "sleep2"}) =>
            watchdog'.pc \in {watchdog.pc, "exited"}]_vars
    /\ [][watchdog.pc = "exited" =>
            /\ watchdog'.pc = "exited"
            /\ ev'.kind \notin {"WatchdogRound", "WatchdogPrune"}]_vars

\* the watchdog has left its loop, interrupted in the sleep that follows a
\* round, with a PING still in flight
C17_Witness ==
    /\ watchdog.pc = "exited"
    /\ watchdog.interrupted
    /\ watchdog.pings # {}

\* C18: the undelivered-queue mutex keeps an enqueue and a drain of the
\* same recipient's queue apart: while one worker is inside the critical
\* section of enqueueUndeliveredMessage for recipient r, no other worker is
\* at the empty(), front() or pop() of the drain of r's queue.
C18_QueueMutex ==
    \A c \in ConnIds :
        (/\ workers.enq.pc \in {"push", "unlock"}
         /\ workers.enq.uid = conns[c].id) =>
            workers.drain[c] \notin {"empty", "front", "pop"}

\* C19: the frame-buffer map has an entry for sender s only between a
\* BEGIN frame from s and the next END frame from s: whenever s has a
\* buffer, some connection of s has sent BEGIN and no END since.
C19_BufferOnlyInSequence ==
    \A s \in Users :
        frameBuffer[s] # NoBuffer =>
            \E c \in ConnIds : conns[c].id = s /\ ownFrames[c] # NoFrames

\* C20: the drain on connect hands each payload that was queued when it
\* started to send at most once: the loop of one open handler never runs
\* more rounds than the queue held when its first round began.
C20_DrainOnce ==
    \A c \in ConnIds : drained[c].rounds <= drained[c].queued

\* C21: a connection whose PONG for the round's PING was processed before
\* the watchdog's disconnect-without-pong step is not evicted by that step,
\* whatever the order of the PING completion callback and the PONG handler.
C21_PongKeepsConnection ==
    ev.kind = "WatchdogPrune" =>
        \A i \in 1..Len(ev.closed) : ev.closed[i] \notin watchdog.ponged

\* C22: the send-back step is attributed to the user who owns the
\* connection the payload arrived on: a payload received on a connection of
\* user a never makes the send-back step call sendTo for another user (no
\* send to that user's connections, no queue entry and no counter change
\* for that user through the send-back).
C22_SendBackToOwner ==
    (ev.kind = "OnMessage" /\ ev.parsed /\ ev.payload.valid) =>
        \A i \in 1..Len(ev.backCalls) : ev.backCalls[i] = conns[ev.c].id

\* C23: the listeners hear a payload once, when onMessage accepts it: a
\* round of the drain on connect, which hands a payload that was queued as
\* undelivered to the recipient again, invokes no listener.
C23_ListenersOnce ==
    ev.kind = "Redeliver" => ev.listened = <<>>

\* C24: the handlers never deadlock on the server's mutexes: no thread
\* waits for a mutex it holds itself, no set of threads wait for one
\* another, and no two mutexes are ever locked in both orders.
C24_NoDeadlock ==
    /\ \A t \in Threads :
            Blocked(t) => workers.owner[Head(workers.todo[t]).m] # t
    /\ \A S \in SUBSET Threads :
            S # {} => \E t \in S :
                ~(Blocked(t) /\ workers.owner[Head(workers.todo[t]).m] \in S)
    /\ \A t, u \in Threads :
            \A q \in OrderOf(t) : <<q[2], q[1]>> \notin OrderOf(u)

\* a worker inside onMessage holds the connection mutex a second time
\* (sendTo) and the undelivered-queue mutex under it, while another
\* worker waits for the connection mutex
C24_Witness ==
    \E t, u \in PoolThreads :
        /\ t # u
        /\ workers.owner["m_connectionMutex"] = t
        /\ workers.depth["m_connectionMutex"] = 2
        /\ workers.owner["m_undeliveredMutex"] = t
        /\ Blocked(u)
        /\ Head(workers.todo[u]).m = "m_connectionMutex"

====
